---- MODULE Spec2Model ----
(***************************************************************************)
(* State-machine model of the fraud consumer (src/fraud-consumer/app/      *)
(* main.py) and of the producer that feeds its queue (src/producer/        *)
(* producer.py).  One worker runs consumer_loop; pc is its position.       *)
(* Scores are kept exact as integers in units of 1/ScoreScale.             *)
(* Spec explores batches of up to MaxMsgs messages, IdleSpec runs of up to *)
(* MaxIdle empty polls, ScoreSpec the scorer on its input range.           *)
(***************************************************************************)
EXTENDS Integers, Sequences, FiniteSets, Bags, TLC

\* ---------------------------------------------------------------- bounds
MaxMsgs == 2          \* messages ever put on the queue
MaxIdleMsgs == 1      \* the same, where runs of empty polls are explored
MaxClock == 1         \* last second the wall clock reaches
MaxIdle == 25         \* longest run of empty polls explored
MaxAmountUnits == 30  \* largest amount explored by the scorer check, in AmountUnit
AmountUnit == 50

\* ------------------------------------------------------ program constants
MaxNumberOfMessages == 10
HeartbeatEvery == 10
FullScale == 500
HashBuckets == 100
PgRetries == 10
SecondsPerHour == 3600
MODEL_VERSION == "baseline"

\* score = ScoreUnits / ScoreScale; 0.3 = 3 * AmountWeight / ScoreScale per
\* unit of amount / FullScale, 0.7 = HashWeight * HashBuckets / ScoreScale.
ScoreScale == 10 * FullScale
AmountWeight == 3
HashWeight == 35

VARIABLES
    sent,        \* bodies of the messages sent so far; MessageId = index
    deleted,     \* MessageIds the queue has deleted
    pc,          \* position of the worker in consumer_loop
    idle_ticks,  \* consumer_loop local
    msgs,        \* consumer_loop local: the batch, a sequence of MessageIds
    i,           \* index in msgs of the message m being processed
    tx,          \* consumer_loop local
    s,           \* consumer_loop local
    to_delete,   \* consumer_loop local
    conn,        \* the global connection handle (the name of the handle)
    connAlive,   \* whether the handle conn is usable
    tx_raw,      \* table tx_raw, a bag of rows
    tx_scored,   \* table tx_scored, a bag of rows
    s3,          \* the bucket: a set of [key, body] objects, one per key
    now,         \* wall clock, seconds: the time last read
    steps,       \* per batch index, the stages completed in this cycle
    failed,      \* batch indexes whose processing raised in this cycle
    reconnects,  \* pg_connect calls made by the last write_db call for m
    replays,     \* replays of the two-insert unit by that call
    heartbeats,  \* heartbeat lines printed since the last non-empty batch
    emptyRun,    \* empty polls since the last non-empty batch
    ackCalls     \* delete_message_batch calls since the last non-empty batch came

vars == <<sent, deleted, pc, idle_ticks, msgs, i, tx, s, to_delete, conn,
          connAlive, tx_raw, tx_scored, s3, now, steps, failed, reconnects,
          replays, heartbeats, emptyRun, ackCalls>>

queueVars == <<sent, deleted, ackCalls>>
dbVars == <<conn, connAlive, tx_raw, tx_scored>>
idleVars == <<idle_ticks, heartbeats, emptyRun>>
callVars == <<reconnects, replays>>

\* ------------------------------------------------------------ data
Min(a, b) == IF a <= b THEN a ELSE b

\* CardStrings[h + 1] is a string whose sha256 digest is h modulo 100.
CardStrings == <<
    "card-105", "card-4", "card-12", "card-270", "card-57",
    "card-88", "card-82", "card-11", "card-32", "card-89",
    "card-83", "card-61", "card-80", "card-123", "card-19",
    "card-300", "card-3", "card-162", "card-134", "card-9",
    "card-86", "card-5", "card-27", "card-6", "card-55",
    "card-81", "card-18", "card-87", "card-85", "card-328",
    "card-25", "card-147", "card-366", "card-396", "card-14",
    "card-145", "card-50", "card-76", "card-1", "card-77",
    "card-26", "card-107", "card-151", "card-146", "card-7",
    "card-72", "card-183", "card-63", "card-78", "card-101",
    "card-115", "card-43", "card-157", "card-70", "card-21",
    "card-17", "card-2", "card-287", "card-109", "card-187",
    "card-40", "card-51", "card-44", "card-30", "card-154",
    "card-74", "card-96", "card-64", "card-45", "card-73",
    "card-67", "card-16", "card-185", "card-116", "card-34",
    "card-68", "card-119", "card-197", "card-8", "card-31",
    "card-159", "card-36", "card-41", "card-152", "card-264",
    "card-167", "card-199", "card-141", "card-0", "card-124",
    "card-13", "card-35", "card-195", "card-150", "card-20",
    "card-103", "card-38", "card-75", "card-54", "card-311" >>

\* int(hashlib.sha256(card_hash.encode()).hexdigest(), 16) % 100
HashBucket(card_hash) ==
    (CHOOSE k \in 1..Len(CardStrings) : CardStrings[k] = card_hash) - 1

\* The transaction a producer builds.
Transaction(txn_id, amount, merchant_id, card_hash, ts) ==
    [txn_id |-> txn_id, amount |-> amount, merchant_id |-> merchant_id,
     card_hash |-> card_hash, ts |-> ts]

TxA == Transaction("t1", 100, "m1", "card-11", "ts1")
TxB == Transaction("t2", 1200, "m2", "card-311", "ts2")
\* Valid JSON that lacks card_hash, and valid JSON that lacks ts.
NoCard == [txn_id |-> "t3", amount |-> 100, merchant_id |-> "m3", ts |-> "ts3"]
NoTs == [txn_id |-> "t4", amount |-> 100, merchant_id |-> "m4",
         card_hash |-> "card-105"]

\* A message body: JSON text of a document, or text that is not JSON.
JsonBody(doc) == [json |-> TRUE, doc |-> doc]
NotJson == [json |-> FALSE, doc |-> [text |-> "{oops"]]

Bodies == {JsonBody(TxA), JsonBody(TxB), JsonBody(NoCard), JsonBody(NoTs), NotJson}

NoTx == [unset |-> TRUE]
NoScore == -1

\* json.loads(m["Body"]): the document, or an exception.
JsonLoadsRaises(body) == ~body.json
JsonLoads(body) == body.doc

\* tx[k] for each k read raises KeyError when a key is missing.
HasKeys(t, keys) == keys \subseteq DOMAIN t

\* The weighted sum without min(1.0, ...).
ScoreOfUnclamped(amount, h) == AmountWeight * amount + HashWeight * h

\* min(1.0, 0.3 * (amount / 500.0) + 0.7 * (h / 100.0)), in units of 1/ScoreScale.
ScoreOf(amount, h) == Min(ScoreScale, AmountWeight * amount + HashWeight * h)

score(t) == ScoreOf(t.amount, HashBucket(t.card_hash))

\* ------------------------------------------------------------ tables
\* Both tables are declared with txn_id as PRIMARY KEY.
PrimaryKey(row) == row.txn_id

HasKey(table, txn_id) == \E r \in BagToSet(table) : PrimaryKey(r) = txn_id

\* A plain INSERT into a table without the primary key: the row is added again.
InsertAlways(table, row) == [rows |-> table (+) SetToBag({row}), err |-> FALSE]

\* INSERT ... ON CONFLICT DO NOTHING on a table whose primary key is txn_id:
\* the rows after the statement, and whether the statement raised.
InsertOnConflictDoNothing(table, row) ==
    IF HasKey(table, PrimaryKey(row))
    THEN [rows |-> table, err |-> FALSE]
    ELSE [rows |-> table (+) SetToBag({row}), err |-> FALSE]

\* A raw insert that does not read ts.
RawKeysWithoutTs == {"txn_id", "amount", "merchant_id"}

\* The keys of tx each statement's parameters read; a missing one raises
\* KeyError before the statement is sent.
RawKeys == {"txn_id", "amount", "merchant_id", "ts"}
ScoredKeys == {"txn_id", "ts", "amount", "merchant_id"}

\* (tx["txn_id"], tx["amount"], tx["merchant_id"], tx["ts"], json.dumps(tx))
RawRow(t) ==
    [k \in RawKeys \cup {"payload"} |-> IF k = "payload" THEN t ELSE t[k]]

\* (tx["txn_id"], tx["ts"], tx["amount"], tx["merchant_id"], s,
\*  json.dumps({"model": MODEL_VERSION}))
ScoredRow(t, sc) ==
    [k \in ScoredKeys \cup {"score", "features"} |->
        IF k = "score" THEN sc
        ELSE IF k = "features" THEN [model |-> MODEL_VERSION]
        ELSE t[k]]

\* The unit with its two inserts in the other order.
ExecUnitScoredFirst(raw, scored, t, sc, fp, kind) ==
    IF fp = 0 THEN [raw |-> raw, scored |-> scored, exc |-> kind]
    ELSE LET r2 == InsertOnConflictDoNothing(scored, ScoredRow(t, sc))
         IN  IF fp = 1
             THEN [raw |-> raw, scored |-> r2.rows, exc |-> kind]
             ELSE LET r1 == InsertOnConflictDoNothing(raw, RawRow(t))
                  IN  [raw |-> r1.rows, scored |-> r2.rows,
                       exc |-> IF fp = 2 THEN kind ELSE "none"]

\* The two-insert unit on an autocommit connection, cut at failure point fp:
\* 0 before the first insert takes effect, 1 between the two inserts, 2 after
\* both took effect, 3 no failure.  kind is the exception raised at fp.
NoFailure == 3
ExecUnit(raw, scored, t, sc, fp, kind) ==
    IF fp = 0 THEN [raw |-> raw, scored |-> scored, exc |-> kind]
    ELSE LET r1 == InsertOnConflictDoNothing(raw, RawRow(t))
         IN  IF r1.err
             THEN [raw |-> raw, scored |-> scored, exc |-> "IntegrityError"]
             ELSE IF fp = 1
             THEN [raw |-> r1.rows, scored |-> scored, exc |-> kind]
             ELSE LET r2 == InsertOnConflictDoNothing(scored, ScoredRow(t, sc))
                  IN  IF r2.err
                      THEN [raw |-> r1.rows, scored |-> scored,
                            exc |-> "IntegrityError"]
                      ELSE IF fp = 2
                      THEN [raw |-> r1.rows, scored |-> r2.rows, exc |-> kind]
                      ELSE [raw |-> r1.rows, scored |-> r2.rows, exc |-> "none"]

\* How one run of the unit for tx t can go on the handle conn, which is alive
\* or not.  conn.cursor() comes first: on a handle on which a statement has
\* failed with OperationalError the driver has marked the connection closed,
\* and cursor() raises InterfaceError, which is not an OperationalError.  Then
\* a missing key raises KeyError where the parameters are built; the
\* connection may drop at any point (OperationalError), or a statement be
\* rejected (another database error).
UnitOutcomes(alive, t) ==
    IF ~alive THEN {[fp |-> 0, kind |-> "InterfaceError"]}
    ELSE IF ~HasKeys(t, RawKeys) THEN {[fp |-> 0, kind |-> "KeyError"]}
    ELSE IF ~HasKeys(t, ScoredKeys)
    THEN {[fp |-> 1, kind |-> "KeyError"], [fp |-> 0, kind |-> "OperationalError"],
          [fp |-> 0, kind |-> "DataError"]}
    ELSE {[fp |-> NoFailure, kind |-> "none"]}
         \cup {[fp |-> f, kind |-> "OperationalError"] : f \in 0..2}
         \cup {[fp |-> f, kind |-> "DataError"] : f \in 0..1}

\* ------------------------------------------------------------ archive
\* f"tx/dt={now:%Y-%m-%d}/hr={now:%H}/part-{int(time.time())}.json.gz"
S3Key(t) == [hr |-> t \div SecondsPerHour, part |-> t]

\* s3.put_object: the object under Key is created or replaced.
PutObject(store, key, body) ==
    {o \in store : o.key # key} \cup {[key |-> key, body |-> body]}

\* {**tx, "score": s, "model": MODEL_VERSION}
ScoredTx(t, sc) == [tx |-> t, score |-> sc, model |-> MODEL_VERSION]

\* ------------------------------------------------------------ queue
Visible == (1..Len(sent)) \ deleted

IsInjective(q) == \A a, b \in DOMAIN q : q[a] = q[b] => a = b

\* The batches receive_message may return: up to MaxNumberOfMessages distinct
\* visible messages, in any order.
Batches ==
    {q \in UNION {[1..n -> Visible] :
                    n \in 1..Min(Cardinality(Visible), MaxNumberOfMessages)} :
        IsInjective(q)}

Ids(entries) == {entries[k] : k \in 1..Len(entries)}

\* ------------------------------------------------------------ initial state
Init ==
    /\ sent = <<>>
    /\ deleted = {}
    /\ pc = "receive"
    /\ idle_ticks = 0
    /\ msgs = <<>>
    /\ i = 0
    /\ tx = NoTx
    /\ s = NoScore
    /\ to_delete = <<>>
    /\ conn = "h0"
    /\ connAlive = TRUE
    /\ tx_raw = EmptyBag
    /\ tx_scored = EmptyBag
    /\ s3 = {}
    /\ now = 0
    /\ steps = <<>>
    /\ failed = {}
    /\ reconnects = 0
    /\ replays = 0
    /\ heartbeats = 0
    /\ emptyRun = 0
    /\ ackCalls = 0

\* ------------------------------------------------------------ consumer_loop
\* The position after the message at index k of a batch of n is done with:
\* the next message, or the "if to_delete" test after the for loop.
AfterMessage(k, n) ==
    IF k < n THEN [pc |-> "parse", i |-> k + 1] ELSE [pc |-> "delete", i |-> 0]

\* A handler that lets the exception leave the for loop.
AfterRaiseAbortsBatch(k, n) == [pc |-> "delete", i |-> 0]

\* A handler around write_db alone: the message goes on to write_s3.
AfterRaiseGoesOnToArchive(k, n) == [pc |-> "write_s3", i |-> k]

\* Where control goes when a stage of message k raises: the inner handler
\* prints and the for loop goes on.
AfterRaise(k, n) == AfterMessage(k, n)

\* A handler that acknowledges the message it failed on.
ExceptToDeleteAppends(entries, id) == Append(entries, id)

\* The inner handler leaves to_delete as it is.
ExceptToDelete(entries, id) == entries

\* An outer handler that ends the loop.
LoopExceptExits == "exit"

\* Where control goes when receive_message or delete_message_batch raises:
\* the outer handler prints, and time.sleep(2) follows.
LoopExceptPc == "sleep"

\* A heartbeat on every idle cycle from the tenth on.
HeartbeatDueFromTenth(ticks) == ticks >= HeartbeatEvery

\* idle_ticks % 10 == 0
HeartbeatDue(ticks) == ticks % HeartbeatEvery = 0

\* idle_ticks = 0 on a non-empty batch.
ResetIdle(ticks) == 0

\* A stage of the message at index i raised (lines 124-125).
Raised ==
    /\ failed' = failed \cup {i}
    /\ to_delete' = ExceptToDelete(to_delete, msgs[i])
    /\ pc' = AfterRaise(i, Len(msgs)).pc
    /\ i' = AfterRaise(i, Len(msgs)).i
    /\ tx' = NoTx
    /\ s' = NoScore

\* A stage of the message at index i returned.
Completed(stage) == steps' = [steps EXCEPT ![i] = Append(@, stage)]

\* sqs.receive_message raises.
ReceiveRaise ==
    /\ pc = "receive"
    /\ pc' = LoopExceptPc
    /\ UNCHANGED <<queueVars, dbVars, idleVars, callVars, msgs, i, tx, s,
                   to_delete, s3, now, steps, failed>>

\* An empty poll: idle_ticks += 1, a heartbeat when due, continue.
ReceiveEmpty ==
    /\ pc = "receive"
    /\ idle_ticks < MaxIdle
    /\ idle_ticks' = idle_ticks + 1
    /\ heartbeats' = IF HeartbeatDue(idle_ticks') THEN heartbeats + 1 ELSE heartbeats
    /\ emptyRun' = emptyRun + 1
    /\ UNCHANGED <<queueVars, dbVars, callVars, pc, msgs, i, tx, s, to_delete,
                   s3, now, steps, failed>>

\* A non-empty batch: idle_ticks = 0, to_delete = [], the for loop starts.
ReceiveBatch ==
    /\ pc = "receive"
    /\ \E q \in Batches :
        /\ msgs' = q
        /\ steps' = [k \in 1..Len(q) |-> <<>>]
    /\ idle_ticks' = ResetIdle(idle_ticks)
    /\ heartbeats' = 0
    /\ emptyRun' = 0
    /\ to_delete' = <<>>
    /\ failed' = {}
    /\ i' = 1
    /\ pc' = "parse"
    /\ ackCalls' = 0
    /\ UNCHANGED <<sent, deleted, dbVars, callVars, tx, s, s3, now>>

\* tx = json.loads(m["Body"])
Parse ==
    /\ pc = "parse"
    /\ IF JsonLoadsRaises(sent[msgs[i]])
       THEN Raised /\ UNCHANGED steps
       ELSE /\ tx' = JsonLoads(sent[msgs[i]])
            /\ Completed("parse")
            /\ pc' = "score"
            /\ UNCHANGED <<i, s, to_delete, failed>>
    /\ reconnects' = 0
    /\ replays' = 0
    /\ UNCHANGED <<queueVars, dbVars, idleVars, msgs, s3, now>>

\* s = score(tx)
Score ==
    /\ pc = "score"
    /\ IF ~HasKeys(tx, {"card_hash", "amount"})
       THEN Raised /\ UNCHANGED <<steps, callVars>>
       ELSE /\ s' = score(tx)
            /\ Completed("score")
            /\ pc' = "write_db"
            /\ UNCHANGED <<i, tx, to_delete, failed, callVars>>
    /\ UNCHANGED <<queueVars, dbVars, idleVars, msgs, s3, now>>

\* ------------------------------------------------------------ write_db
\* A reconnect whose result is not stored in the global conn.
ReconnectHandleKept(c) == c

\* The handle after conn = pg_connect() returned: a new connection object.
\* Only the current handle is ever used, so two names tell old from new.
Handles == {"h0", "h1"}
ReconnectHandle(c) == CHOOSE h \in Handles : h # c

\* pg_connect: up to PgRetries attempts, of which the first fails are refused.
PgConnectRaises(fails) == fails >= PgRetries

\* A handler that reconnects again when the replay loses the connection.
OnReplayErrorRetries(exc) == IF exc = "OperationalError" THEN "reconnect" ELSE "raise"

\* A replay whose exception is swallowed: write_db returns.
OnReplayErrorSwallows(exc) == "write_s3"

\* What write_db does when the replay raises exc: nothing catches it.
OnReplayError(exc) == "raise"

\* The tables after one run of the two-insert unit.
UnitEffect(out) ==
    /\ tx_raw' = out.raw
    /\ tx_scored' = out.scored

\* The first attempt (lines 57-71).
WriteDbTry ==
    /\ pc = "write_db"
    /\ reconnects' = 0
    /\ replays' = 0
    /\ \E o \in UnitOutcomes(connAlive, tx) :
        LET out == ExecUnit(tx_raw, tx_scored, tx, s, o.fp, o.kind)
        IN  /\ UnitEffect(out)
            /\ conn' = conn
            /\ connAlive' = (connAlive /\ out.exc # "OperationalError")
            /\ CASE out.exc = "none" ->
                        /\ Completed("write_db")
                        /\ pc' = "write_s3"
                        /\ UNCHANGED <<i, tx, s, to_delete, failed>>
                 [] out.exc = "OperationalError" ->
                        /\ pc' = "reconnect"
                        /\ UNCHANGED <<i, tx, s, to_delete, failed, steps>>
                 [] OTHER -> Raised /\ UNCHANGED steps
    /\ UNCHANGED <<queueVars, idleVars, msgs, s3, now>>

\* except OperationalError: conn = pg_connect() (line 74).
Reconnect ==
    /\ pc = "reconnect"
    /\ reconnects' = reconnects + 1
    /\ \E fails \in {0, PgRetries} :
        IF PgConnectRaises(fails)
        THEN Raised /\ UNCHANGED <<dbVars, steps>>
        ELSE /\ conn' = ReconnectHandle(conn)
             /\ connAlive' = TRUE
             /\ pc' = "replay"
             /\ UNCHANGED <<tx_raw, tx_scored, i, tx, s, to_delete, failed,
                            steps>>
    /\ UNCHANGED <<queueVars, idleVars, msgs, s3, now, replays>>

\* The replay of the two-insert unit on the new handle (lines 75-88).
Replay ==
    /\ pc = "replay"
    /\ replays' = replays + 1
    /\ \E o \in UnitOutcomes(connAlive, tx) :
        LET out == ExecUnit(tx_raw, tx_scored, tx, s, o.fp, o.kind)
        IN  /\ UnitEffect(out)
            /\ conn' = conn
            /\ connAlive' = (connAlive /\ out.exc # "OperationalError")
            /\ IF out.exc = "none"
               THEN /\ Completed("write_db")
                    /\ pc' = "write_s3"
                    /\ UNCHANGED <<i, tx, s, to_delete, failed>>
               ELSE IF OnReplayError(out.exc) = "raise"
               THEN Raised /\ UNCHANGED steps
               ELSE /\ pc' = OnReplayError(out.exc)
                    /\ UNCHANGED <<i, tx, s, to_delete, failed, steps>>
    /\ UNCHANGED <<queueVars, idleVars, msgs, s3, now, reconnects>>

\* ------------------------------------------------------------ write_s3, ack
\* write_s3({**tx, "score": s, "model": MODEL_VERSION}): the clock is read
\* (it has advanced by dt since it was last read), then put_object or raise.
WriteS3 ==
    /\ pc = "write_s3"
    /\ \E dt \in 0..(MaxClock - now) :
        /\ now' = now + dt
        /\ \/ /\ s3' = PutObject(s3, S3Key(now'), ScoredTx(tx, s))
              /\ Completed("write_s3")
              /\ pc' = "append"
              /\ UNCHANGED <<i, tx, s, to_delete, failed, callVars>>
           \/ Raised /\ UNCHANGED <<s3, steps, callVars>>
    /\ UNCHANGED <<queueVars, dbVars, idleVars, msgs>>

\* An entry put in front of the others.
ToDeletePrepend(entries, id) == <<id>> \o entries

\* to_delete.append({"Id": m["MessageId"], ...})
ToDeleteAppend(entries, id) == Append(entries, id)

\* to_delete.append(...) and on to the next message.
AppendEntry ==
    /\ pc = "append"
    /\ to_delete' = ToDeleteAppend(to_delete, msgs[i])
    /\ Completed("append")
    /\ pc' = AfterMessage(i, Len(msgs)).pc
    /\ i' = AfterMessage(i, Len(msgs)).i
    /\ tx' = NoTx
    /\ s' = NoScore
    /\ UNCHANGED <<queueVars, dbVars, idleVars, callVars, msgs, s3, now, failed>>

\* The end of a cycle: the locals of the cycle are dead.
EndCycle ==
    /\ msgs' = <<>>
    /\ to_delete' = <<>>
    /\ steps' = <<>>
    /\ failed' = {}
    /\ reconnects' = 0
    /\ replays' = 0
    /\ UNCHANGED <<i, tx, s>>

\* A delete_message_batch call made whatever to_delete holds.
DeleteDueAlways(entries) == TRUE

\* if to_delete:
DeleteDue(entries) == entries # <<>>

\* if to_delete: false, nothing is sent.
DeleteSkip ==
    /\ pc = "delete"
    /\ ~DeleteDue(to_delete)
    /\ pc' = "receive"
    /\ EndCycle
    /\ UNCHANGED <<queueVars, dbVars, idleVars, s3, now>>

\* sqs.delete_message_batch(Entries=to_delete) returns: the queue deleted the
\* entries it reports Successful, any subset of them.
DeleteBatch ==
    /\ pc = "delete"
    /\ DeleteDue(to_delete)
    /\ ackCalls' = ackCalls + 1
    /\ \E ok \in SUBSET Ids(to_delete) : deleted' = deleted \cup ok
    /\ pc' = "receive"
    /\ EndCycle
    /\ UNCHANGED <<sent, dbVars, idleVars, s3, now>>

\* sqs.delete_message_batch raises.
DeleteRaise ==
    /\ pc = "delete"
    /\ DeleteDue(to_delete)
    /\ ackCalls' = ackCalls + 1
    /\ pc' = LoopExceptPc
    /\ EndCycle
    /\ UNCHANGED <<sent, deleted, dbVars, idleVars, s3, now>>

\* time.sleep(2) in the outer handler, then the next iteration.
Sleep ==
    /\ pc = "sleep"
    /\ pc' = "receive"
    /\ UNCHANGED <<queueVars, dbVars, idleVars, callVars, msgs, i, tx, s,
                   to_delete, s3, now, steps, failed>>

\* ------------------------------------------------------------ environment
\* A sender puts one more message on the queue.  The worker reads the queue
\* only in receive_message, which returns any of the visible messages in any
\* order, so when and in which order the bodies were sent cannot be observed:
\* a send is taken when the worker is about to poll, bodies in BodyOrder.
BodyOrder == <<JsonBody(TxA), JsonBody(TxB), JsonBody(NoCard), JsonBody(NoTs), NotJson>>
BodyRank(b) == CHOOSE k \in 1..Len(BodyOrder) : BodyOrder[k] = b

SendUpTo(n) ==
    /\ pc = "receive"
    /\ Len(sent) < n
    /\ \E b \in Bodies :
        /\ sent # <<>> => BodyRank(sent[Len(sent)]) <= BodyRank(b)
        /\ sent' = Append(sent, b)
    /\ UNCHANGED <<deleted, ackCalls, dbVars, idleVars, callVars, pc, msgs, i,
                   tx, s, to_delete, s3, now, steps, failed>>

\* The steps of the worker but for its empty polls.
CycleStep ==
    \/ ReceiveRaise
    \/ ReceiveBatch
    \/ Parse
    \/ Score
    \/ WriteDbTry
    \/ Reconnect
    \/ Replay
    \/ WriteS3
    \/ AppendEntry
    \/ DeleteSkip
    \/ DeleteBatch
    \/ DeleteRaise
    \/ Sleep

\* The worker without its empty polls, which change nothing but idle_ticks
\* and the heartbeat count, and the sender.
Next ==
    \/ CycleStep
    \/ SendUpTo(MaxMsgs)

Spec == Init /\ [][Next]_vars

\* The worker thread keeps running (it is the only thread of the loop and
\* nothing stops it), and the services are fair to every message m: the
\* queue delivers it again and again while it is not deleted, and the calls
\* made for it that can return infinitely often do return: the two-insert
\* unit, pg_connect, put_object, and delete_message_batch deleting it.
FairFor(m) ==
    /\ SF_vars(ReceiveBatch /\ m \in Ids(msgs'))
    /\ SF_vars((WriteDbTry \/ Replay) /\ pc' = "write_s3" /\ msgs[i] = m)
    /\ SF_vars(Reconnect /\ pc' = "replay" /\ msgs[i] = m)
    /\ SF_vars(WriteS3 /\ pc' = "append" /\ msgs[i] = m)
    /\ SF_vars(DeleteBatch /\ m \in deleted')

Fairness ==
    /\ WF_vars(CycleStep)
    /\ \A m \in 1..MaxMsgs : FairFor(m)

FairSpec == Init /\ [][Next]_vars /\ Fairness

\* The steps of the worker (everything but the sender).
WorkerStep ==
    \/ ReceiveRaise
    \/ ReceiveEmpty
    \/ ReceiveBatch
    \/ Parse
    \/ Score
    \/ WriteDbTry
    \/ Reconnect
    \/ Replay
    \/ WriteS3
    \/ AppendEntry
    \/ DeleteSkip
    \/ DeleteBatch
    \/ DeleteRaise
    \/ Sleep

\* The whole worker, empty polls included, and the sender.
IdleNext ==
    \/ WorkerStep
    \/ SendUpTo(MaxIdleMsgs)

IdleSpec == Init /\ [][IdleNext]_vars

\* The scorer on its whole input range: one message whose body was parsed,
\* with any amount 0, AmountUnit, ..., MaxAmountUnits * AmountUnit and a
\* card_hash of every hash bucket, taken through score, write_db and write_s3.
ScoreInit ==
    \E a \in 0..MaxAmountUnits, h \in 0..(HashBuckets - 1) :
        LET t == Transaction("t1", a * AmountUnit, "m1", CardStrings[h + 1], "ts1")
        IN  /\ sent = <<JsonBody(t)>>
            /\ deleted = {}
            /\ pc = "score"
            /\ idle_ticks = 0
            /\ msgs = <<1>>
            /\ i = 1
            /\ tx = JsonLoads(JsonBody(t))
            /\ s = NoScore
            /\ to_delete = <<>>
            /\ conn = "h0"
            /\ connAlive = TRUE
            /\ tx_raw = EmptyBag
            /\ tx_scored = EmptyBag
            /\ s3 = {}
            /\ now = 0
            /\ steps = << <<"parse">> >>
            /\ failed = {}
            /\ reconnects = 0
            /\ replays = 0
            /\ heartbeats = 0
            /\ emptyRun = 0
            /\ ackCalls = 0

ScoreNext ==
    \/ Score
    \/ WriteDbTry
    \/ Reconnect
    \/ Replay
    \/ WriteS3
    \/ AppendEntry

ScoreSpec == ScoreInit /\ [][ScoreNext]_vars

\* ------------------------------------------------------------ properties
AllStages == <<"parse", "score", "write_db", "write_s3", "append">>
BeforeAppend == <<"parse", "score", "write_db", "write_s3">>

\* The batch indexes of the entries of to_delete.
AckIndexes == {j \in 1..Len(msgs) : msgs[j] \in Ids(to_delete)}

\* C1 Acknowledgment gating: every entry of to_delete is a message of this
\* cycle's batch whose parse, score, write_db and write_s3 all returned in this
\* cycle; a message one of whose stages raised is not in to_delete, and the
\* queue deletes nothing but entries of to_delete, so it stays on the queue.
AckOnlyAfterAllStages ==
    /\ Ids(to_delete) \subseteq Ids(msgs)
    /\ \A j \in AckIndexes : steps[j] = AllStages /\ j \notin failed
    /\ \A j \in failed : msgs[j] \notin Ids(to_delete) /\ msgs[j] \notin deleted

C1_AckGating ==
    /\ []AckOnlyAfterAllStages
    /\ [][deleted' \subseteq deleted \cup Ids(to_delete)]_vars

\* A cycle in which write_s3 raised for one message and another was acknowledged.
C1_Witness ==
    /\ pc = "delete"
    /\ to_delete # <<>>
    /\ \E j \in failed : steps[j] = <<"parse", "score", "write_db">>

\* C2 Partial-batch isolation: when the for loop is over, every message of the
\* batch was attempted (it raised, or it went through every stage), and
\* to_delete holds exactly the messages of the batch that did not raise.
C2_PartialBatchIsolation ==
    pc = "delete" =>
        /\ \A j \in 1..Len(msgs) : j \in failed \/ steps[j] = AllStages
        /\ Ids(to_delete) = Ids(msgs) \ {msgs[j] : j \in failed}

\* The first message of a batch of two failed persistence; the second is acknowledged.
C2_Witness ==
    /\ pc = "delete"
    /\ Len(msgs) = MaxMsgs
    /\ failed = {1}
    /\ steps[1] = <<"parse", "score">>
    /\ to_delete = <<msgs[Len(msgs)]>>

\* The rows of a table with the given txn_id, counted with multiplicity.
RowCount(table, txn_id) ==
    LET rows == {r \in BagToSet(table) : r.txn_id = txn_id}
        RECURSIVE Sum(_)
        Sum(R) == IF R = {} THEN 0
                  ELSE LET r == CHOOSE x \in R : TRUE
                       IN  CopiesIn(r, table) + Sum(R \ {r})
    IN  Sum(rows)

TxnIds(table) == {r.txn_id : r \in BagToSet(table)}

OneRowPerTxn ==
    /\ \A id \in TxnIds(tx_raw) : RowCount(tx_raw, id) = 1
    /\ \A id \in TxnIds(tx_scored) : RowCount(tx_scored, id) = 1

\* A run of the two-insert unit is about to start for a txn_id that both
\* tables already hold.
PersistingAgain ==
    /\ pc \in {"write_db", "replay"}
    /\ HasKey(tx_raw, tx.txn_id)
    /\ HasKey(tx_scored, tx.txn_id)

\* The run of the unit that is about to start returns without an exception.
UnitReturns ==
    /\ pc \in {"write_db", "replay"}
    /\ pc' = "write_s3"
    /\ \/ WriteDbTry
       \/ Replay

\* C3 Relational idempotence: tx_raw and tx_scored never hold two rows with
\* one txn_id; a persist of a txn_id both tables hold can return on a usable
\* handle (the duplicate raises nothing), and however it ends it leaves the two
\* tables as they were.
C3_RelationalIdempotence ==
    /\ []OneRowPerTxn
    /\ [](PersistingAgain /\ connAlive => ENABLED UnitReturns)
    /\ [][PersistingAgain => tx_raw' = tx_raw /\ tx_scored' = tx_scored]_vars

\* A redelivered message was persisted a second time and the call returned.
C3_Witness ==
    /\ pc = "write_s3"
    /\ RowCount(tx_raw, tx.txn_id) = 1
    /\ RowCount(tx_scored, tx.txn_id) = 1
    /\ \E o \in s3 : o.body.tx = tx

\* C4 Bounded retry of persistence: a write_db call in whose first attempt the
\* connection is lost goes to the reconnect, once; it calls pg_connect at most once
\* and replays the unit at most once, after that reconnect; when the reconnect
\* or the replay raises, the exception leaves write_db: write_s3 is not run
\* for the message, nothing is archived or added to to_delete, and the message
\* counts as failed in this cycle.
RetryCounts ==
    /\ reconnects \in 0..1
    /\ replays \in 0..reconnects
    /\ pc = "reconnect" => reconnects = 0 /\ replays = 0
    /\ pc = "replay" => reconnects = 1 /\ replays = 0
    /\ \A j \in failed : msgs[j] \notin Ids(to_delete)

FirstAttemptTriggersReconnect ==
    pc = "write_db" /\ connAlive /\ ~connAlive' => pc' = "reconnect"

RetryFailurePropagates ==
    (\/ pc = "reconnect" /\ pc' # "replay"
     \/ pc = "replay" /\ pc' # "write_s3")
    => /\ i \in failed'
       /\ steps'[i] = <<"parse", "score">>
       /\ s3' = s3
       /\ to_delete' = to_delete
       /\ pc' = AfterMessage(i, Len(msgs)).pc

C4_BoundedRetry ==
    /\ []RetryCounts
    /\ [][FirstAttemptTriggersReconnect]_vars
    /\ [][RetryFailurePropagates]_vars

\* The replay of the last message of the batch failed too: it is not acknowledged.
C4_Witness ==
    /\ pc = "delete"
    /\ reconnects = 1
    /\ replays = 1
    /\ Len(msgs) \in failed
    /\ steps[Len(msgs)] = <<"parse", "score">>
    /\ msgs[Len(msgs)] \notin Ids(to_delete)

\* C5 Reconnect transparency: when the first attempt lost the connection and
\* the reconnect and the replay returned, write_db returns with exactly one
\* reconnect and one replay made, both tables hold exactly one row for the
\* txn_id, conn is a new usable handle that nothing but a later reconnect
\* replaces, and the message goes on to write_s3 and, archived, to to_delete.
PersistedAfterReconnect ==
    pc = "write_s3" /\ reconnects = 1 =>
        /\ replays = 1
        /\ RowCount(tx_raw, tx.txn_id) = 1
        /\ RowCount(tx_scored, tx.txn_id) = 1
        /\ connAlive
        /\ i \notin failed
        /\ steps[i] = <<"parse", "score", "write_db">>

ArchiveReturns == WriteS3 /\ pc' = "append"

GoesOnToAck ==
    /\ pc = "write_s3" => ENABLED ArchiveReturns
    /\ pc = "append" => ENABLED AppendEntry

HandleReplaced ==
    /\ pc = "reconnect" /\ pc' = "replay" => conn' # conn /\ connAlive'
    /\ conn' # conn => pc = "reconnect" /\ pc' = "replay"
    /\ pc = "append" /\ pc' # pc => msgs[i] \in Ids(to_delete')

C5_ReconnectTransparency ==
    /\ [](PersistedAfterReconnect /\ GoesOnToAck)
    /\ [][HandleReplaced]_vars

\* A message persisted by the replay on the new handle was archived.
C5_Witness ==
    /\ pc = "append"
    /\ reconnects = 1
    /\ replays = 1
    /\ conn # "h0"
    /\ steps[i] = BeforeAppend

\* C6 The loop is never ended by an error: the worker is always at a position
\* of the loop with a step to take; inside a batch every step moves on to a
\* later stage or a later message, or to the end of the for loop; after the
\* for loop comes the next receive or the outer handler, and after the outer
\* handler's pause the next receive.
Positions ==
    {"receive", "parse", "score", "write_db", "reconnect", "replay", "write_s3",
     "append", "delete", "sleep"}

StageOrder == <<"parse", "score", "write_db", "reconnect", "replay", "write_s3", "append">>
InBatch(p) == \E k \in 1..Len(StageOrder) : StageOrder[k] = p
StageRank(p) == CHOOSE k \in 1..Len(StageOrder) : StageOrder[k] = p

LoopAlive == pc \in Positions /\ ENABLED WorkerStep

LoopAdvances ==
    /\ pc = "sleep" /\ pc' # pc => pc' = "receive"
    /\ pc = "delete" /\ pc' # pc => pc' \in {"receive", "sleep"}
    /\ InBatch(pc) =>
        \/ pc' = "delete"
        \/ /\ InBatch(pc')
           /\ i' \in 1..Len(msgs)
           /\ i' > i \/ (i' = i /\ StageRank(pc') > StageRank(pc))

C6_LoopNeverTerminates ==
    /\ []LoopAlive
    /\ [][LoopAdvances]_vars

\* The outer handler is pausing after a cycle that archived a message and
\* acknowledged none.
C6_Witness ==
    /\ pc = "sleep"
    /\ s3 # {}
    /\ deleted = {}

\* C7 Malformed message handling: a message whose body is not JSON or lacks a
\* field is never deleted from the queue and never in to_delete, no row and no
\* archive object comes from it, it raises in every cycle that receives it,
\* and the other messages of its batch are attempted and, unless they raise
\* themselves, acknowledged.
MessageFields == {"txn_id", "amount", "merchant_id", "card_hash", "ts"}
Malformed(body) == ~body.json \/ ~HasKeys(body.doc, MessageFields)
MalformedIds == {m \in 1..Len(sent) : Malformed(sent[m])}
MalformedTxnIds ==
    {sent[m].doc.txn_id : m \in {k \in MalformedIds : "txn_id" \in DOMAIN sent[k].doc}}

C7_MalformedMessageHandling ==
    /\ \A m \in MalformedIds : m \notin deleted /\ m \notin Ids(to_delete)
    /\ \A r \in BagToSet(tx_raw) : r.txn_id \notin MalformedTxnIds
    /\ \A r \in BagToSet(tx_scored) : r.txn_id \notin MalformedTxnIds
    /\ \A o \in s3 : ~Malformed(JsonBody(o.body.tx))
    /\ pc = "delete" =>
        \A j \in 1..Len(msgs) :
            /\ msgs[j] \in MalformedIds => j \in failed
            /\ j \in failed \/ (steps[j] = AllStages /\ msgs[j] \in Ids(to_delete))

\* A batch whose first message lacks a field or is not JSON and whose second
\* message is acknowledged.
C7_Witness ==
    /\ pc = "delete"
    /\ Len(msgs) = 2
    /\ msgs[1] \in MalformedIds
    /\ failed = {1}
    /\ to_delete = <<msgs[2]>>

\* C8 Idle heartbeat cadence: idle_ticks is the number of empty polls since the
\* last non-empty batch and is 0 while a batch is processed, whatever becomes
\* of its messages; a heartbeat is printed in an empty poll exactly when that
\* number is a multiple of HeartbeatEvery, so the heartbeats of a run of n
\* empty polls number n \div HeartbeatEvery.
IdleCounts ==
    /\ idle_ticks = emptyRun
    /\ heartbeats = emptyRun \div HeartbeatEvery
    /\ pc \notin {"receive", "sleep"} => idle_ticks = 0

HeartbeatStep ==
    /\ emptyRun' = emptyRun + 1 =>
        /\ heartbeats' \in {heartbeats, heartbeats + 1}
        /\ heartbeats' = heartbeats + 1 <=> emptyRun' % HeartbeatEvery = 0
    /\ pc = "receive" /\ pc' = "parse" => idle_ticks' = 0

C8_IdleHeartbeatCadence ==
    /\ []IdleCounts
    /\ [][HeartbeatStep]_vars

\* 25 empty polls in a row printed exactly 2 heartbeats.
C8_Witness ==
    /\ emptyRun = 25
    /\ idle_ticks = 25
    /\ heartbeats = 2

\* C9 Score boundedness: the score of every transaction with amount >= 0 and
\* any card_hash is at least 0 and at most 1 (ScoreScale units), and so is
\* every score in tx_scored and in the archive.
InUnitInterval(sc) == 0 <= sc /\ sc <= ScoreScale

C9_ScoreBounded ==
    /\ s # NoScore => InUnitInterval(s)
    /\ \A r \in BagToSet(tx_scored) : InUnitInterval(r.score)
    /\ \A o \in s3 : InUnitInterval(o.body.score)

\* A transaction whose weighted sum exceeds 1 was stored and archived with score 1.
C9_Witness ==
    /\ pc = "append"
    /\ ScoreOfUnclamped(tx.amount, HashBucket(tx.card_hash)) > ScoreScale
    /\ s = ScoreScale
    /\ \E r \in BagToSet(tx_scored) : r.score = ScoreScale
    /\ \E o \in s3 : o.body.score = ScoreScale

\* C10 Every archive call creates a new object and replaces none: an object
\* of the bucket is still there, unchanged, after every step.
C10_ArchiveNeverOverwrites == [][\A o \in s3 : o \in s3']_vars

\* Every message of the batch was attempted: it raised, or went through
\* every stage.
AllAttempted == \A j \in 1..Len(msgs) : j \in failed \/ steps[j] = AllStages

\* The statement "exactly one delete_message_batch call in every cycle that
\* received a batch": the step that ends the cycle has made the one call.
C11_AckExactlyOncePerCycle ==
    /\ [](ackCalls \in 0..1)
    /\ [][pc = "delete" /\ pc' # "delete" => ackCalls' = 1]_vars

AckCallNotInBatch ==
    /\ ackCalls \in 0..1
    /\ InBatch(pc) \/ pc = "delete" => ackCalls = 0

AckCallAfterBatch ==
    /\ ackCalls' > ackCalls => pc = "delete" /\ AllAttempted /\ to_delete # <<>>
    /\ pc = "delete" /\ pc' # "delete" =>
            ackCalls' = (IF to_delete # <<>> THEN 1 ELSE 0)

\* C11 One acknowledge call per cycle at most: delete_message_batch is never
\* called while the batch is being processed and never twice in a cycle; the
\* cycle of a batch ends with exactly one call, made after every message was
\* attempted, when to_delete holds an entry, and with no call when every
\* message of the batch raised.
C11_AckAtMostOncePerCycle ==
    /\ []AckCallNotInBatch
    /\ [][AckCallAfterBatch]_vars

\* The cycle of a batch of two made its one call, which deleted one message.
C11_Witness ==
    /\ pc = "receive"
    /\ ackCalls = 1
    /\ Len(sent) = 2
    /\ Cardinality(deleted) = 1

IsPrefix(p, q) == Len(p) <= Len(q) /\ \A k \in 1..Len(p) : p[k] = q[k]

\* The stages the message being processed has completed, by position.
StagesDoneAt(p) ==
    CASE p = "parse" -> <<>>
      [] p = "score" -> <<"parse">>
      [] p \in {"write_db", "reconnect", "replay"} -> <<"parse", "score">>
      [] p = "write_s3" -> <<"parse", "score", "write_db">>
      [] p = "append" -> BeforeAppend

StagesInOrder ==
    /\ \A j \in 1..Len(msgs) : IsPrefix(steps[j], AllStages)
    /\ InBatch(pc) => steps[i] = StagesDoneAt(pc) /\ i \notin failed
    /\ \A j \in failed : Len(steps[j]) < Len(BeforeAppend)

\* Within a delivery attempt (the batch stays the same) a message completes
\* at most its next stage in a step, a failed message completes none, and the
\* bucket changes only in the archive step of a persisted message.
StageStep ==
    /\ msgs' = msgs =>
        \A j \in 1..Len(msgs) :
            /\ \/ steps'[j] = steps[j]
               \/ /\ Len(steps[j]) < Len(AllStages)
                  /\ steps'[j] = Append(steps[j], AllStages[Len(steps[j]) + 1])
            /\ j \in failed => steps'[j] = steps[j] /\ j \in failed'
    /\ s3' # s3 => pc = "write_s3" /\ steps[i] = <<"parse", "score", "write_db">>
    /\ to_delete' # to_delete /\ to_delete' # <<>> =>
            pc = "append" /\ steps[i] = BeforeAppend

\* C12 Per-message stage order: the stages a message has completed in a
\* delivery attempt are always an initial part of parse, score, write_db,
\* write_s3, append, extended one stage at a time; write_s3 is attempted only
\* for a message whose write_db returned; a message that raised completes no
\* further stage in that attempt.
C12_StageOrder ==
    /\ []StagesInOrder
    /\ [][StageStep]_vars

\* The first message stopped at the archive step, persisted; the second went
\* through every stage before the append.
C12_Witness ==
    /\ pc = "append"
    /\ i = 2
    /\ 1 \in failed
    /\ steps[1] = <<"parse", "score", "write_db">>
    /\ steps[2] = BeforeAppend

\* min(1.0, 0.3 * (min(amount, 500) / 500) + 0.7 * (h / 100)), in units of
\* 1/ScoreScale: the formula with the amount capped at FullScale.
CappedScoreOf(amount, h) ==
    Min(ScoreScale, AmountWeight * Min(amount, FullScale) + HashWeight * h)

\* C13 Scorer formula: the score computed for a transaction, and the score
\* stored with it, is the capped formula's value for its amount and the hash
\* bucket of its card_hash.
C13_ScorerFormula ==
    /\ s # NoScore => s = CappedScoreOf(tx.amount, HashBucket(tx.card_hash))
    /\ \A o \in s3 :
          o.body.score = CappedScoreOf(o.body.tx.amount, HashBucket(o.body.tx.card_hash))

\* C14 Recovery of the connection handle: a write_db call that starts while
\* conn is unusable goes to the reconnect, and a reconnect that fails leaves
\* conn as it was.
C14_HandleRecovery ==
    /\ [][pc = "write_db" /\ ~connAlive => pc' = "reconnect"]_vars
    /\ [][pc = "reconnect" /\ pc' # "replay" => conn' = conn]_vars

Rows(table, txn_id) == {r \in BagToSet(table) : r.txn_id = txn_id}

\* Every row of the table is still there after the step.
RowsStay(table, after) ==
    \A r \in BagToSet(table) : CopiesIn(r, after) >= CopiesIn(r, table)

\* No step takes a row back; when write_s3 raises after write_db returned,
\* the rows of the message are in both tables and the message is neither in
\* to_delete nor deleted; when delete_message_batch raises, nothing is deleted
\* and the tables are as they were.
NoRollback ==
    /\ RowsStay(tx_raw, tx_raw') /\ RowsStay(tx_scored, tx_scored')
    /\ pc = "write_s3" /\ pc' # "append" /\ pc' # pc =>
            /\ i \in failed'
            /\ Rows(tx_raw', tx.txn_id) # {} /\ Rows(tx_scored', tx.txn_id) # {}
            /\ msgs[i] \notin Ids(to_delete')
            /\ deleted' = deleted
    /\ pc = "delete" /\ pc' = LoopExceptPc =>
            /\ deleted' = deleted
            /\ tx_raw' = tx_raw /\ tx_scored' = tx_scored

\* Every archived txn_id has exactly one row in each table, however many
\* objects the bucket holds for it.
ArchivedPersistedOnce ==
    \A o \in s3 :
        /\ RowCount(tx_raw, o.body.tx.txn_id) = 1
        /\ RowCount(tx_scored, o.body.tx.txn_id) = 1

\* C15 No rollback across stores: a failed write_s3 or a failed
\* delete_message_batch leaves the rows written in place and the messages on
\* the queue, and reprocessing them leaves exactly one row per txn_id in each
\* table, whatever number of archive objects it adds.
C15_NoRollbackAcrossStores ==
    /\ []ArchivedPersistedOnce
    /\ [][NoRollback]_vars

\* The one message sent was archived twice, in two deliveries, and has one
\* row in each table.
C15_Witness ==
    /\ Len(sent) = 1
    /\ deleted = {}
    /\ \E o1, o2 \in s3 : o1 # o2 /\ o1.body.tx.txn_id = o2.body.tx.txn_id
    /\ \A o \in s3 : RowCount(tx_raw, o.body.tx.txn_id) = 1
    /\ \A o \in s3 : RowCount(tx_scored, o.body.tx.txn_id) = 1

BatchIndex(m) == CHOOSE j \in 1..Len(msgs) : msgs[j] = m

\* While the message at index i is processed, the messages before it are
\* done with and those after it untouched; to_delete lists its entries in
\* the order of the batch.
OneAtATime ==
    /\ InBatch(pc) =>
        \A j \in 1..Len(msgs) :
            /\ j < i => j \in failed \/ steps[j] = AllStages
            /\ j > i => steps[j] = <<>> /\ j \notin failed
    /\ Ids(to_delete) \subseteq Ids(msgs)
    /\ \A a, b \in 1..Len(to_delete) :
            a < b => BatchIndex(to_delete[a]) < BatchIndex(to_delete[b])

\* A step that writes to a table or the bucket writes for the message at
\* index i, and that index never goes down within a batch.
WritesOfCurrentMessage ==
    /\ tx_raw' # tx_raw \/ tx_scored' # tx_scored \/ s3' # s3 =>
            /\ InBatch(pc)
            /\ tx = JsonLoads(sent[msgs[i]])
            /\ \A r \in BagToSet(tx_raw') : r \in BagToSet(tx_raw) \/ r = RawRow(tx)
            /\ \A r \in BagToSet(tx_scored') :
                    r \in BagToSet(tx_scored) \/ r = ScoredRow(tx, s)
            /\ \A o \in s3' : o \in s3 \/ o.body = ScoredTx(tx, s)
    /\ InBatch(pc) /\ InBatch(pc') => i' \in {i, i + 1}

\* C16 Messages of a batch are processed one at a time, in the order
\* receive_message returned them, and to_delete keeps that order.
C16_SequentialInBatchOrder ==
    /\ []OneAtATime
    /\ [][WritesOfCurrentMessage]_vars

\* A batch returned in the reverse of the send order was processed and
\* collected in the order returned.
C16_Witness ==
    /\ pc = "delete"
    /\ Len(msgs) = 2
    /\ msgs[1] > msgs[2]
    /\ to_delete = msgs

TxnIdOf(m) == sent[m].doc.txn_id

\* C17 Durable before acknowledged: every message in to_delete, and every
\* message the queue has deleted, has a row with its txn_id in tx_raw and one
\* in tx_scored.
C17_DurableBeforeAcked ==
    \A m \in deleted \cup Ids(to_delete) :
        /\ sent[m].json
        /\ "txn_id" \in DOMAIN sent[m].doc
        /\ Rows(tx_raw, TxnIdOf(m)) # {}
        /\ Rows(tx_scored, TxnIdOf(m)) # {}

\* Both messages sent were deleted after a replay persisted one of them.
C17_Witness ==
    /\ Cardinality(deleted) = 2
    /\ pc = "receive"
    /\ conn # "h0"
    /\ \A m \in deleted : Rows(tx_raw, TxnIdOf(m)) # {} /\ Rows(tx_scored, TxnIdOf(m)) # {}

\* C18 Raw before scored: every txn_id with a row in tx_scored has a row in
\* tx_raw.
C18_RawBeforeScored == TxnIds(tx_scored) \subseteq TxnIds(tx_raw)

\* The connection dropped between the two inserts: the raw row is there, the
\* scored row not yet.
C18_Witness ==
    /\ pc = "reconnect"
    /\ Rows(tx_raw, tx.txn_id) # {}
    /\ Rows(tx_scored, tx.txn_id) = {}

WellFormedIds == (1..Len(sent)) \ MalformedIds

\* C19 Eventual acknowledgment: with the worker running and the services
\* fair, every well-formed message sent is eventually deleted from the queue.
C19_EventualAck ==
    \A m \in 1..MaxMsgs : [](m \in WellFormedIds => <>(m \in deleted))

====
